---- MODULE Spec2Model ----
(***************************************************************************)
(* Model of the annotation pipeline of autonomous_driver/util.py:          *)
(* camera intrinsics, world-to-image projection, canvas test, instance     *)
(* segmentation decoding, 2D box extraction and 3D box projection.         *)
(*                                                                         *)
(* Arithmetic.  The Python code computes in IEEE doubles.  The model       *)
(* computes in exact integers and exact fractions: a projected coordinate  *)
(* is a record [n, d] standing for n/d with d > 0, and d = 0 stands for    *)
(* the non-finite doubles (inf, -inf, nan) that numpy produces on a        *)
(* division by zero.  All three behave alike in the code modelled here:    *)
(* point_in_canvas answers False and int() raises.  Rotations are          *)
(* restricted to yaw angles that are multiples of 90 degrees (pitch and    *)
(* roll 0) and the field of view to 90 degrees, so that sines, cosines and *)
(* the focal length are integers; the rounding of np.tan and of the        *)
(* double divisions is not modelled.                                       *)
(***************************************************************************)
EXTENDS Integers, Sequences, FiniteSets, TLC

VARIABLES
    \* ---- inputs of bbox_3d_for_actor ----
    camera,       \* camera.get_transform(): [loc, yaw]
    camera_bp,    \* blueprint attributes: [image_size_x, image_size_y, fov]
    actor,        \* [id, loc, yaw, extent, bb_loc, semantic_tags]
    ego,          \* [loc, yaw, bb_loc]
    \* ---- control and locals of bbox_3d_for_actor ----
    pc3d,         \* "idle" | "loop" | "done" | "raised"
    verts,        \* util.py:125, the 8 world vertices of the target, indexed 0..7
    edge_i,       \* 1-based index in EDGES of the edge the loop handles next
    projection,   \* the list built at util.py:127-148
    result3d,     \* the returned dictionary, NoResult before the return
    hist,         \* history: one record per loop iteration already run
    \* ---- instance segmentation and bbox_2d_for_actor ----
    inst_seg,         \* the frame: rows 0..h-1 of columns 0..w-1 of <<B, G, R, A>> bytes
    semantic_labels,  \* first result of decode_instance_segmentation
    actor_ids,        \* second result of decode_instance_segmentation
    pc2d,             \* "idle" | "decoded" | "done"
    result2d,         \* what bbox_2d_for_actor returned, NoResult before
    \* ---- build_projection_matrix called on its own ----
    k_args,           \* the arguments [w, h, fov]
    k_normal,         \* build_projection_matrix(w, h, fov), NoResult before the call
    k_mirrored,       \* build_projection_matrix(w, h, fov, is_behind_camera=True)
    \* ---- calculate_relative_velocity ----
    velocities,       \* [actor, ego]: get_velocity() of the target and of the ego
    rel_vel,          \* the returned dictionary, NoResult before the call
    \* ---- main of bounding_boxes.py ----
    m_pc,             \* the statement main runs next, "off" when main is not run
    record,           \* bounding_boxes.py:85
    display_3d,       \* bounding_boxes.py:86
    run_simulation,   \* bounding_boxes.py:87
    world_sync,       \* settings.synchronous_mode of the world
    tm_sync,          \* synchronous mode of the traffic manager
    ego_vehicle,      \* "unset" | "alive" | "none" (try_spawn_actor gave None) | "destroyed"
    camera_sensor,    \* the RGB camera: "unset" | "spawned" | "listening" | "destroyed"
    inst_camera,      \* the instance segmentation camera, same values
    npcs,             \* the list npcs: one of "alive" | "destroyed" per vehicle
    frame,            \* the frame number of the world, one more per world.tick()
    camera_out,       \* frames the RGB camera produced, callback not yet run
    inst_out,         \* the same for the instance segmentation camera
    image_queue,      \* bounding_boxes.py:176
    inst_queue,       \* bounding_boxes.py:179
    exc,              \* the exception that ended the try block or the script, "none" if none
    r_presses,        \* history: number of R key-up events handled
    iter,             \* history: what the current loop iteration did
    \* ---- main of setup_world.py ----
    s_pc,                \* the statement main runs next, "off" when main is not run
    settings_sync,       \* synchronous_mode in the settings of the world
    synchronous_master,  \* "unbound" before setup_world.py:110-113, then "True" | "False"
    vehicles_list,       \* setup_world.py:85
    walkers_list,        \* setup_world.py:86: [id, has_con, con], has_con = key "con" present
    walker_speeds,       \* setup_world.py:181
    all_ids,             \* setup_world.py:87
    all_actors,          \* [bound, ids]: unbound before setup_world.py:233
    max_speeds,          \* the calls set_max_speed: [con, speed] per controller started
    drawn,               \* history: [id, speed] per walker of the batch, in batch order
    destroyed,           \* ids for which the finally block issued DestroyActor
    restored,            \* the finally block switched the world back to asynchronous mode
    s_exc,               \* the exception that left the try block, "none" if none
    fin_exc,             \* the exception raised by the finally block, "none" if none
    s_ticks              \* passes of the tick loop, setup_world.py:245-249

vars3d == <<camera, camera_bp, actor, ego, pc3d, verts, edge_i, projection, result3d, hist>>

vars2d == <<inst_seg, semantic_labels, actor_ids, pc2d, result2d>>

varsK == <<k_args, k_normal, k_mirrored>>

varsKin == <<velocities, rel_vel>>

varsMain == <<m_pc, record, display_3d, run_simulation, world_sync, tm_sync, ego_vehicle,
              camera_sensor, inst_camera, npcs, frame, camera_out, inst_out, image_queue,
              inst_queue, exc, r_presses, iter>>

varsSetup == <<s_pc, settings_sync, synchronous_master, vehicles_list, walkers_list,
               walker_speeds, all_ids, all_actors, max_speeds, drawn, destroyed, restored,
               s_exc, fin_exc, s_ticks>>

\* the variables of the two scripts
varsProc == <<varsMain, varsSetup>>

\* the variables added to those of the 3D and 2D sides
varsExt == <<varsK, varsKin, varsProc>>

\* ------------------------------------------------------------------------
\* Bounds of the model
\* ------------------------------------------------------------------------
GridW == 3         \* columns of the instance frames given to bbox_2d_for_actor
GridH == 2         \* rows of the instance frames given to bbox_2d_for_actor
MaxCoord == 3      \* actor x and y positions range over -MaxCoord..MaxCoord
MaxHeight == 0     \* actor z positions range over -MaxHeight..MaxHeight
MaxHalfSize == 6   \* image widths and heights given to build_projection_matrix: up to 2 * MaxHalfSize

\* main of bounding_boxes.py: NPC vehicles spawned, loop iterations run,
\* events pending at one pass of the event loop, R key-ups in a run
MaxNpcs == 1

MaxTicks == 3

MaxEvents == 2

MaxPresses == 2

\* main of setup_world.py: vehicles and walkers in a batch
MaxVehicles == 1

MaxWalkers == 2

NoResult == [kind |-> "none"]

\* ------------------------------------------------------------------------
\* Vectors, angles and fractions
\* ------------------------------------------------------------------------
Vec(x, y, z) == [x |-> x, y |-> y, z |-> z]

VecAdd(a, b) == Vec(a.x + b.x, a.y + b.y, a.z + b.z)

VecSub(a, b) == Vec(a.x - b.x, a.y - b.y, a.z - b.z)

Dot(a, b) == a.x * b.x + a.y * b.y + a.z * b.z

Cos(yaw) == CASE yaw = 0 -> 1 [] yaw = 90 -> 0 [] yaw = 180 -> -1 [] yaw = 270 -> 0

Sin(yaw) == CASE yaw = 0 -> 0 [] yaw = 90 -> 1 [] yaw = 180 -> 0 [] yaw = 270 -> -1

\* tan(fov * pi / 360) as a fraction <<numerator, denominator>>
TanHalfFov(fov) == CASE fov = 90 -> <<1, 1>>

\* n / s in doubles: a fraction with positive denominator, or non-finite (d = 0)
FDiv(n, s) ==
    IF s = 0 THEN [n |-> n, d |-> 0]
    ELSE IF s > 0 THEN [n |-> n, d |-> s]
    ELSE [n |-> -n, d |-> -s]

IsFinite(r) == r.d > 0

\* int(r) for a finite r: truncation towards zero
Trunc(r) == IF r.n >= 0 THEN r.n \div r.d ELSE -((-r.n) \div r.d)

\* ------------------------------------------------------------------------
\* carla.Transform and carla.BoundingBox (library behaviour used by util.py)
\* ------------------------------------------------------------------------
\* Transform.get_forward_vector()
get_forward_vector(t) == Vec(Cos(t.yaw), Sin(t.yaw), 0)

\* Transform.transform(p): rotate the local point, then translate
transform(t, p) ==
    Vec(Cos(t.yaw) * p.x - Sin(t.yaw) * p.y + t.loc.x,
        Sin(t.yaw) * p.x + Cos(t.yaw) * p.y + t.loc.y,
        p.z + t.loc.z)

\* Transform.inverse_transform(p): world point to the local frame of t
inverse_transform(t, p) ==
    LET d == VecSub(p, t.loc)
    IN  Vec(Cos(t.yaw) * d.x + Sin(t.yaw) * d.y,
            Cos(t.yaw) * d.y - Sin(t.yaw) * d.x,
            d.z)

\* np.dot(Transform.get_inverse_matrix(), [x, y, z, 1]), first three rows
world_to_camera(t, p) == inverse_transform(t, p)

\* BoundingBox.get_world_vertices(transform): the 8 corners, index bits
\* (x, y, z) = (4, 2, 1), a set bit meaning the positive side
get_world_vertices(a, i) ==
    LET sx == IF (i \div 4) % 2 = 1 THEN 1 ELSE -1
        sy == IF (i \div 2) % 2 = 1 THEN 1 ELSE -1
        sz == IF i % 2 = 1 THEN 1 ELSE -1
    IN  transform([loc |-> a.loc, yaw |-> a.yaw],
                  Vec(a.bb_loc.x + sx * a.extent.x,
                      a.bb_loc.y + sy * a.extent.y,
                      a.bb_loc.z + sz * a.extent.z))

\* ------------------------------------------------------------------------
\* util.py
\* ------------------------------------------------------------------------
\* variant of EDGES: the last entry is <<3,1>>, the second edge reversed
EDGES_repeated == << <<0,1>>, <<1,3>>, <<3,2>>, <<2,0>>, <<0,4>>, <<4,5>>,
                     <<5,1>>, <<5,7>>, <<7,6>>, <<6,4>>, <<6,2>>, <<3,1>> >>

EDGES == << <<0,1>>, <<1,3>>, <<3,2>>, <<2,0>>, <<0,4>>, <<4,5>>,
            <<5,1>>, <<5,7>>, <<7,6>>, <<6,4>>, <<6,2>>, <<7,3>> >>

\* variant of build_projection_matrix: the principal point exchanged, w/2 in
\* the second row and h/2 in the first
build_projection_matrix_swapped(w, h, fov, is_behind_camera) ==
    LET t == TanHalfFov(fov)
        focal == (w * t[2]) \div (2 * t[1])
        f == IF is_behind_camera THEN -focal ELSE focal
    IN  << <<f, 0, h \div 2>>,
           <<0, f, w \div 2>>,
           <<0, 0, 1>> >>

build_projection_matrix(w, h, fov, is_behind_camera) ==
    LET t == TanHalfFov(fov)
        focal == (w * t[2]) \div (2 * t[1])
        f == IF is_behind_camera THEN -focal ELSE focal
    IN  << <<f, 0, w \div 2>>,
           <<0, f, h \div 2>>,
           <<0, 0, 1>> >>

get_image_point(loc, K, w2c) ==
    LET pc == world_to_camera(w2c, loc)
        p == <<pc.y, -pc.z, pc.x>>
        img == [r \in 1..3 |-> K[r][1] * p[1] + K[r][2] * p[2] + K[r][3] * p[3]]
    IN  <<FDiv(img[1], img[3]), FDiv(img[2], img[3])>>

\* variant of point_in_canvas: the right and bottom borders included
point_in_canvas_closed(pos, img_h, img_w) ==
    /\ IsFinite(pos[1]) /\ IsFinite(pos[2])
    /\ pos[1].n >= 0
    /\ pos[1].n <= img_w * pos[1].d
    /\ pos[2].n >= 0
    /\ pos[2].n <= img_h * pos[2].d

point_in_canvas(pos, img_h, img_w) ==
    /\ IsFinite(pos[1]) /\ IsFinite(pos[2])
    /\ pos[1].n >= 0
    /\ pos[1].n < img_w * pos[1].d
    /\ pos[2].n >= 0
    /\ pos[2].n < img_h * pos[2].d

\* numpy's astype(np.uint16) and uint16 arithmetic: values modulo 2^16
uint16(n) == n % 65536

\* util.py:85-88; a pixel is <<B, G, R, A>>, numpy channel c is pixel[c + 1]
decode_pixel_label(px) == px[3]

\* variant of decode_pixel_id: the shift done in the 8 bits of the channel
decode_pixel_id_byte_shift(px) == uint16(uint16(px[2]) + ((px[1] * 256) % 256))

decode_pixel_id(px) == uint16(uint16(px[2]) + uint16(uint16(px[1]) * 256))

decode_instance_segmentation(img_rgba) ==
    [semantic_labels |-> [y \in DOMAIN img_rgba |->
                             [x \in DOMAIN img_rgba[y] |-> decode_pixel_label(img_rgba[y][x])]],
     actor_ids |-> [y \in DOMAIN img_rgba |->
                       [x \in DOMAIN img_rgba[y] |-> decode_pixel_id(img_rgba[y][x])]]]

SetMin(S) == CHOOSE m \in S : \A n \in S : m <= n

SetMax(S) == CHOOSE m \in S : \A n \in S : m >= n

\* variant of bbox_2d_for_actor: rows and columns exchanged in the box
bbox_2d_for_actor_transposed(a, ids, labels) ==
    LET mask == {yx \in {<<y, x>> : y \in DOMAIN ids, x \in DOMAIN ids[CHOOSE y \in DOMAIN ids : TRUE]} :
                    ids[yx[1]][yx[2]] = a.id}
        ys == {yx[1] : yx \in mask}
        xs == {yx[2] : yx \in mask}
    IN  IF mask = {} THEN [kind |-> "None"]
        ELSE [kind |-> "bbox_2d",
              actor_id |-> a.id,
              semantic_label |-> a.semantic_tags[1],
              bbox_2d |-> <<SetMin(ys), SetMin(xs), SetMax(ys), SetMax(xs)>>]

\* variant of bbox_2d_for_actor: the label read in the semantic_labels grid
\* at the first matching pixel
bbox_2d_for_actor_grid_label(a, ids, labels) ==
    LET mask == {yx \in {<<y, x>> : y \in DOMAIN ids, x \in DOMAIN ids[CHOOSE y \in DOMAIN ids : TRUE]} :
                    ids[yx[1]][yx[2]] = a.id}
        ys == {yx[1] : yx \in mask}
        xs == {yx[2] : yx \in mask}
        y0 == SetMin(ys)
        x0 == SetMin({yx[2] : yx \in {m \in mask : m[1] = y0}})
    IN  IF mask = {} THEN [kind |-> "None"]
        ELSE [kind |-> "bbox_2d",
              actor_id |-> a.id,
              semantic_label |-> labels[y0][x0],
              bbox_2d |-> <<SetMin(xs), SetMin(ys), SetMax(xs), SetMax(ys)>>]

\* util.py:91-100
bbox_2d_for_actor(a, ids, labels) ==
    LET mask == {yx \in {<<y, x>> : y \in DOMAIN ids, x \in DOMAIN ids[CHOOSE y \in DOMAIN ids : TRUE]} :
                    ids[yx[1]][yx[2]] = a.id}
        ys == {yx[1] : yx \in mask}
        xs == {yx[2] : yx \in mask}
    IN  IF mask = {} THEN [kind |-> "None"]
        ELSE [kind |-> "bbox_2d",
              actor_id |-> a.id,
              semantic_label |-> a.semantic_tags[1],
              bbox_2d |-> <<SetMin(xs), SetMin(ys), SetMax(xs), SetMax(ys)>>]

\* math.radians(deg) = deg * pi / 180, kept as the fraction of pi
radians(deg) == [n |-> deg, d |-> 180]

\* util.py:138-146, the test applied to one endpoint: "not (dot > 0)"
is_behind(cam, vert) ==
    LET ray == VecSub(vert, cam.loc)
        cam_forward_vec == get_forward_vector(cam)
    IN  ~(Dot(cam_forward_vec, ray) > 0)

\* util.py:135, the edge survives unless neither endpoint is in the canvas
edge_kept(p1_in_canvas, p2_in_canvas) == ~(~p1_in_canvas /\ ~p2_in_canvas)

\* variant of edge_points: one decision per edge, both endpoints mirrored as
\* soon as one of them is behind the camera
edge_points_per_edge(cam, bp, v0, v1) ==
    LET image_w == bp.image_size_x
        image_h == bp.image_size_y
        K == build_projection_matrix(image_w, image_h, bp.fov, FALSE)
        K_b == build_projection_matrix(image_w, image_h, bp.fov, TRUE)
        p1 == get_image_point(v0, K, cam)
        p2 == get_image_point(v1, K, cam)
        b == is_behind(cam, v0) \/ is_behind(cam, v1)
    IN  [p1_in_canvas |-> point_in_canvas(p1, image_h, image_w),
         p2_in_canvas |-> point_in_canvas(p2, image_h, image_w),
         p1 |-> IF b THEN get_image_point(v0, K_b, cam) ELSE p1,
         p2 |-> IF b THEN get_image_point(v1, K_b, cam) ELSE p2,
         k1 |-> IF b THEN "K_b" ELSE "K",
         k2 |-> IF b THEN "K_b" ELSE "K"]

\* variant of edge_points: an endpoint is mirrored only when it is the one
\* endpoint of its edge behind the camera
edge_points_exactly_one(cam, bp, v0, v1) ==
    LET image_w == bp.image_size_x
        image_h == bp.image_size_y
        K == build_projection_matrix(image_w, image_h, bp.fov, FALSE)
        K_b == build_projection_matrix(image_w, image_h, bp.fov, TRUE)
        p1 == get_image_point(v0, K, cam)
        p2 == get_image_point(v1, K, cam)
        b1 == is_behind(cam, v0) /\ ~is_behind(cam, v1)
        b2 == is_behind(cam, v1) /\ ~is_behind(cam, v0)
    IN  [p1_in_canvas |-> point_in_canvas(p1, image_h, image_w),
         p2_in_canvas |-> point_in_canvas(p2, image_h, image_w),
         p1 |-> IF b1 THEN get_image_point(v0, K_b, cam) ELSE p1,
         p2 |-> IF b2 THEN get_image_point(v1, K_b, cam) ELSE p2,
         k1 |-> IF b1 THEN "K_b" ELSE "K",
         k2 |-> IF b2 THEN "K_b" ELSE "K"]

\* util.py:129-146 for one edge: the two first projections, the canvas
\* tests, and the endpoints after the behind-camera correction.  k1 and k2
\* record which intrinsics produced the final p1 and p2.
edge_points(cam, bp, v0, v1) ==
    LET image_w == bp.image_size_x
        image_h == bp.image_size_y
        K == build_projection_matrix(image_w, image_h, bp.fov, FALSE)
        K_b == build_projection_matrix(image_w, image_h, bp.fov, TRUE)
        p1 == get_image_point(v0, K, cam)
        p2 == get_image_point(v1, K, cam)
        b1 == is_behind(cam, v0)
        b2 == is_behind(cam, v1)
    IN  [p1_in_canvas |-> point_in_canvas(p1, image_h, image_w),
         p2_in_canvas |-> point_in_canvas(p2, image_h, image_w),
         p1 |-> IF b1 THEN get_image_point(v0, K_b, cam) ELSE p1,
         p2 |-> IF b2 THEN get_image_point(v1, K_b, cam) ELSE p2,
         k1 |-> IF b1 THEN "K_b" ELSE "K",
         k2 |-> IF b2 THEN "K_b" ELSE "K"]

\* util.py:148, int() of the four coordinates; int() raises on inf and nan
segment_raises(ep) ==
    \E c \in {ep.p1[1], ep.p1[2], ep.p2[1], ep.p2[2]} : ~IsFinite(c)

segment(ep) == <<Trunc(ep.p1[1]), Trunc(ep.p1[2]), Trunc(ep.p2[1]), Trunc(ep.p2[2])>>

\* util.py:128-146 for the edge the loop is at
CurPoints == edge_points(camera, camera_bp, verts[EDGES[edge_i][1]], verts[EDGES[edge_i][2]])

\* util.py:117-123 and 150-166: the returned dictionary
bbox_3d_result(a, e, proj) ==
    LET ego_bbox_loc == VecAdd(e.loc, e.bb_loc)
        ego_bbox_transform == [loc |-> ego_bbox_loc, yaw |-> e.yaw]
        npc_bbox_loc == VecAdd(a.loc, a.bb_loc)
        npc_loc_ego_space == inverse_transform(ego_bbox_transform, npc_bbox_loc)
    IN  [kind |-> "bbox_3d",
         actor_id |-> a.id,
         semantic_label |-> a.semantic_tags[1],
         center |-> npc_loc_ego_space,
         dimensions |-> [length |-> a.extent.x * 2,
                         width |-> a.extent.y * 2,
                         height |-> a.extent.z * 2],
         rotation_yaw |-> radians(a.yaw - e.yaw),
         projection |-> proj]

\* variant of projection_append: the segment put in front of the list
projection_prepend(proj, seg) == <<seg>> \o proj

\* util.py:148, projection.append(...)
projection_append(proj, seg) == Append(proj, seg)

\* What one iteration of the loop at util.py:128-148 did: the two canvas
\* tests, the intrinsics behind the final endpoints ("none" when the
\* continue came first), and the outcome ("skipped" by the continue,
\* "appended" with its segment, or "raised")
HistEntry(ep, outcome, seg) ==
    [p1_in_canvas |-> ep.p1_in_canvas, p2_in_canvas |-> ep.p2_in_canvas,
     k1 |-> IF outcome = "skipped" THEN "none" ELSE ep.k1,
     k2 |-> IF outcome = "skipped" THEN "none" ELSE ep.k2,
     outcome |-> outcome, seg |-> seg]

\* ---- actions of bbox_3d_for_actor ----
\* util.py:103-127: read the inputs, verts = [...], projection = []
Bbox3dEnter ==
    /\ pc3d = "idle"
    /\ pc3d' = "loop"
    /\ verts' = [i \in 0..7 |-> get_world_vertices(actor, i)]
    /\ edge_i' = 1
    /\ projection' = <<>>
    /\ UNCHANGED <<vars2d, varsExt, camera, camera_bp, actor, ego, result3d, hist>>

\* util.py:128-136: neither endpoint in the canvas, continue
Bbox3dEdgeSkip ==
    /\ pc3d = "loop" /\ edge_i <= Len(EDGES)
    /\ LET ep == CurPoints
       IN  /\ ~edge_kept(ep.p1_in_canvas, ep.p2_in_canvas)
           /\ hist' = Append(hist, HistEntry(ep, "skipped", <<>>))
    /\ edge_i' = edge_i + 1
    /\ UNCHANGED <<vars2d, varsExt, camera, camera_bp, actor, ego, pc3d, verts, projection, result3d>>

\* util.py:128-148: the edge survives and its segment is appended
Bbox3dEdgeAppend ==
    /\ pc3d = "loop" /\ edge_i <= Len(EDGES)
    /\ LET ep == CurPoints
       IN  /\ edge_kept(ep.p1_in_canvas, ep.p2_in_canvas)
           /\ ~segment_raises(ep)
           /\ projection' = projection_append(projection, segment(ep))
           /\ hist' = Append(hist, HistEntry(ep, "appended", segment(ep)))
    /\ edge_i' = edge_i + 1
    /\ UNCHANGED <<vars2d, varsExt, camera, camera_bp, actor, ego, pc3d, verts, result3d>>

\* util.py:148: int() of a non-finite coordinate raises (OverflowError for
\* inf, ValueError for nan); the exception leaves bbox_3d_for_actor
Bbox3dEdgeRaise ==
    /\ pc3d = "loop" /\ edge_i <= Len(EDGES)
    /\ LET ep == CurPoints
       IN  /\ edge_kept(ep.p1_in_canvas, ep.p2_in_canvas)
           /\ segment_raises(ep)
           /\ hist' = Append(hist, HistEntry(ep, "raised", <<>>))
    /\ pc3d' = "raised"
    /\ UNCHANGED <<vars2d, varsExt, camera, camera_bp, actor, ego, verts, edge_i, projection, result3d>>

\* util.py:150-166
Bbox3dReturn ==
    /\ pc3d = "loop" /\ edge_i > Len(EDGES)
    /\ pc3d' = "done"
    /\ result3d' = bbox_3d_result(actor, ego, projection)
    /\ UNCHANGED <<vars2d, varsExt, camera, camera_bp, actor, ego, verts, edge_i, projection, hist>>

\* ---- decoding a frame and extracting the 2D box (bounding_boxes.py:213-240) ----
\* bounding_boxes.py:217, semantic_labels, actor_ids = decode_instance_segmentation(inst_seg)
Decode ==
    /\ pc2d = "idle"
    /\ LET d == decode_instance_segmentation(inst_seg)
       IN  /\ semantic_labels' = d.semantic_labels
           /\ actor_ids' = d.actor_ids
    /\ pc2d' = "decoded"
    /\ UNCHANGED <<vars3d, varsExt, inst_seg, result2d>>

\* bounding_boxes.py:240, npc_bbox_2d = bbox_2d_for_actor(npc, actor_ids, semantic_labels)
Bbox2d ==
    /\ pc2d = "decoded"
    /\ result2d' = bbox_2d_for_actor(actor, actor_ids, semantic_labels)
    /\ pc2d' = "done"
    /\ UNCHANGED <<vars3d, varsExt, inst_seg, semantic_labels, actor_ids>>

\* the 2D side at rest, for the specifications that do not run it
Idle2D ==
    /\ inst_seg = <<>>
    /\ semantic_labels = <<>>
    /\ actor_ids = <<>>
    /\ pc2d = "off"
    /\ result2d = NoResult

\* ---- build_projection_matrix on its own (util.py:114-115) ----
\* K = build_projection_matrix(image_w, image_h, fov)
BuildNormal ==
    /\ k_args # NoResult
    /\ k_normal = NoResult
    /\ k_normal' = [kind |-> "matrix",
                    K |-> build_projection_matrix(k_args.w, k_args.h, k_args.fov, FALSE)]
    /\ UNCHANGED <<vars3d, vars2d, varsKin, varsProc, k_args, k_mirrored>>

\* K_b = build_projection_matrix(image_w, image_h, fov, is_behind_camera=True)
BuildMirrored ==
    /\ k_args # NoResult
    /\ k_normal # NoResult
    /\ k_mirrored = NoResult
    /\ k_mirrored' = [kind |-> "matrix",
                      K |-> build_projection_matrix(k_args.w, k_args.h, k_args.fov, TRUE)]
    /\ UNCHANGED <<vars3d, vars2d, varsKin, varsProc, k_args, k_normal>>

IdleK ==
    /\ k_args = NoResult
    /\ k_normal = NoResult
    /\ k_mirrored = NoResult

\* ---- calculate_relative_velocity (util.py:220-230) ----
calculate_relative_velocity(actor_vel, ego_vel, e) ==
    LET rel == VecSub(actor_vel, ego_vel)
        vel_ego_frame == inverse_transform([loc |-> e.loc, yaw |-> e.yaw], rel)
    IN  [kind |-> "velocity", x |-> vel_ego_frame.x, y |-> vel_ego_frame.y, z |-> vel_ego_frame.z]

\* bounding_boxes.py:250, called for a target after its boxes were computed
CalcRelVel ==
    /\ pc3d = "done"
    /\ velocities # NoResult
    /\ rel_vel = NoResult
    /\ rel_vel' = calculate_relative_velocity(velocities.actor, velocities.ego, ego)
    /\ UNCHANGED <<vars3d, vars2d, varsK, varsProc, velocities>>

IdleKin ==
    /\ velocities = NoResult
    /\ rel_vel = NoResult

\* ---- main of bounding_boxes.py ----
\* the variables of the functions of util.py
varsUtil == <<vars3d, vars2d, varsK, varsKin>>

\* the variables that main of bounding_boxes.py leaves alone
varsData == <<varsUtil, varsSetup>>

NewIteration == [ticks |-> 0, image_gets |-> 0, inst_gets |-> 0, tick_frame |-> 0,
                 image_frame |-> 0, inst_frame |-> 0, png |-> FALSE, json |-> FALSE,
                 presses |-> 0, done |-> FALSE]

\* variant of queue_get: the item stays in the queue
queue_peek(q) == [item |-> Head(q), rest |-> q]

\* queue.Queue.get() on a queue that is not empty: the oldest item, removed
queue_get(q) == [item |-> Head(q), rest |-> Tail(q)]

\* pygame events: key-up of R, 2, 3, ESC, key-down of R, window close
Events == [type : {"KEYUP"}, key : {"K_r", "K_2", "K_3", "K_ESCAPE"}]
              \cup {[type |-> "KEYDOWN", key |-> "K_r"], [type |-> "QUIT", key |-> "none"]}

\* the body of the for loop over the events, bounding_boxes.py:185-195
handle_event(st, event) ==
    IF event.type = "KEYUP"
    THEN [record         |-> IF event.key = "K_r" THEN TRUE ELSE st.record,
          display_3d     |-> IF event.key = "K_3" THEN TRUE
                             ELSE IF event.key = "K_2" THEN FALSE ELSE st.display_3d,
          run_simulation |-> IF event.key = "K_ESCAPE" THEN FALSE ELSE st.run_simulation]
    ELSE IF event.type = "QUIT"
    THEN [st EXCEPT !.run_simulation = FALSE]
    ELSE st

RECURSIVE handle_events(_, _)
handle_events(st, events) ==
    IF events = <<>> THEN st
    ELSE handle_events(handle_event(st, Head(events)), Tail(events))

RECURSIVE count_r_keyups(_)
count_r_keyups(events) ==
    IF events = <<>> THEN 0
    ELSE (IF Head(events) = [type |-> "KEYUP", key |-> "K_r"] THEN 1 ELSE 0)
             + count_r_keyups(Tail(events))

\* bounding_boxes.py:110-118
EnableSync ==
    /\ m_pc = "sync"
    /\ world_sync' = TRUE
    /\ tm_sync' = TRUE
    /\ m_pc' = "spawn_ego"
    /\ UNCHANGED <<varsData, record, display_3d, run_simulation, ego_vehicle, camera_sensor,
                   inst_camera, npcs, frame, camera_out, inst_out, image_queue, inst_queue,
                   exc, r_presses, iter>>

\* bounding_boxes.py:120-127, try_spawn_actor gives the vehicle or None
SpawnEgo ==
    /\ m_pc = "spawn_ego"
    /\ \E r \in {"alive", "none"} : ego_vehicle' = r
    /\ m_pc' = "spawn_sensors"
    /\ UNCHANGED <<varsData, record, display_3d, run_simulation, world_sync, tm_sync,
                   camera_sensor, inst_camera, npcs, frame, camera_out, inst_out,
                   image_queue, inst_queue, exc, r_presses, iter>>

\* bounding_boxes.py:129-141, attach_to=None spawns the sensor unattached
SpawnSensors ==
    /\ m_pc = "spawn_sensors"
    /\ camera_sensor' = "spawned"
    /\ inst_camera' = "spawned"
    /\ m_pc' = "autopilot"
    /\ UNCHANGED <<varsData, record, display_3d, run_simulation, world_sync, tm_sync,
                   ego_vehicle, npcs, frame, camera_out, inst_out, image_queue, inst_queue,
                   exc, r_presses, iter>>

\* bounding_boxes.py:143, outside the try block: on None the AttributeError
\* ends the script
SetAutopilot ==
    /\ m_pc = "autopilot"
    /\ IF ego_vehicle = "none"
       THEN m_pc' = "crashed" /\ exc' = "AttributeError"
       ELSE m_pc' = "spawn_npcs" /\ exc' = exc
    /\ UNCHANGED <<varsData, record, display_3d, run_simulation, world_sync, tm_sync,
                   ego_vehicle, camera_sensor, inst_camera, npcs, frame, camera_out,
                   inst_out, image_queue, inst_queue, r_presses, iter>>

\* bounding_boxes.py:145-173: some of the requested vehicles spawn
SpawnNpcs ==
    /\ m_pc = "spawn_npcs"
    /\ \E n \in 0..MaxNpcs : npcs' = [i \in 1..n |-> "alive"]
    /\ m_pc' = "listen"
    /\ UNCHANGED <<varsData, record, display_3d, run_simulation, world_sync, tm_sync,
                   ego_vehicle, camera_sensor, inst_camera, frame, camera_out, inst_out,
                   image_queue, inst_queue, exc, r_presses, iter>>

\* bounding_boxes.py:175-180
Listen ==
    /\ m_pc = "listen"
    /\ image_queue' = <<>>
    /\ inst_queue' = <<>>
    /\ camera_sensor' = "listening"
    /\ inst_camera' = "listening"
    /\ m_pc' = "loop"
    /\ UNCHANGED <<varsData, record, display_3d, run_simulation, world_sync, tm_sync,
                   ego_vehicle, npcs, frame, camera_out, inst_out, exc, r_presses, iter>>

\* bounding_boxes.py:183-195: the loop condition holds, the pending events
\* are handled in order
HandleEvents ==
    /\ m_pc = "loop"
    /\ run_simulation
    /\ frame < MaxTicks
    /\ \E n \in 0..MaxEvents : \E events \in [1..n -> Events] :
           LET st == handle_events([record |-> record, display_3d |-> display_3d,
                                    run_simulation |-> run_simulation], events)
               r == count_r_keyups(events)
           IN  /\ r_presses + r <= MaxPresses
               /\ record' = st.record
               /\ display_3d' = st.display_3d
               /\ run_simulation' = st.run_simulation
               /\ r_presses' = r_presses + r
               /\ iter' = [NewIteration EXCEPT !.presses = r_presses + r]
    /\ m_pc' = "tick"
    /\ UNCHANGED <<varsData, world_sync, tm_sync, ego_vehicle, camera_sensor, inst_camera,
                   npcs, frame, camera_out, inst_out, image_queue, inst_queue, exc>>

\* bounding_boxes.py:183: the loop condition fails
ExitLoop ==
    /\ m_pc = "loop"
    /\ ~run_simulation
    /\ m_pc' = "finally"
    /\ UNCHANGED <<varsData, record, display_3d, run_simulation, world_sync, tm_sync,
                   ego_vehicle, camera_sensor, inst_camera, npcs, frame, camera_out,
                   inst_out, image_queue, inst_queue, exc, r_presses, iter>>

\* bounding_boxes.py:197-204: world.tick(); each listening sensor produces
\* the frame of this tick
Tick ==
    /\ m_pc = "tick"
    /\ frame' = frame + 1
    /\ camera_out' = IF camera_sensor = "listening" THEN Append(camera_out, frame + 1)
                     ELSE camera_out
    /\ inst_out' = IF inst_camera = "listening" THEN Append(inst_out, frame + 1)
                   ELSE inst_out
    /\ iter' = [iter EXCEPT !.ticks = @ + 1, !.tick_frame = frame + 1]
    /\ m_pc' = "get_image"
    /\ UNCHANGED <<varsData, record, display_3d, run_simulation, world_sync, tm_sync,
                   ego_vehicle, camera_sensor, inst_camera, npcs, image_queue, inst_queue,
                   exc, r_presses>>

\* the callback of camera.listen(image_queue.put), run by the sensor's thread
CameraCallback ==
    /\ camera_sensor = "listening"
    /\ camera_out # <<>>
    /\ image_queue' = Append(image_queue, Head(camera_out))
    /\ camera_out' = Tail(camera_out)
    /\ UNCHANGED <<varsData, m_pc, record, display_3d, run_simulation, world_sync, tm_sync,
                   ego_vehicle, camera_sensor, inst_camera, npcs, frame, inst_out,
                   inst_queue, exc, r_presses, iter>>

\* the callback of inst_camera.listen(inst_queue.put)
InstCallback ==
    /\ inst_camera = "listening"
    /\ inst_out # <<>>
    /\ inst_queue' = Append(inst_queue, Head(inst_out))
    /\ inst_out' = Tail(inst_out)
    /\ UNCHANGED <<varsData, m_pc, record, display_3d, run_simulation, world_sync, tm_sync,
                   ego_vehicle, camera_sensor, inst_camera, npcs, frame, camera_out,
                   image_queue, exc, r_presses, iter>>

\* bounding_boxes.py:206-210: image_queue.get() blocks while the queue is
\* empty; the image is saved when record is set
GetImage ==
    /\ m_pc = "get_image"
    /\ image_queue # <<>>
    /\ LET got == queue_get(image_queue)
       IN  /\ image_queue' = got.rest
           /\ iter' = [iter EXCEPT !.image_gets = @ + 1, !.image_frame = got.item,
                                   !.png = record]
    /\ m_pc' = "get_inst"
    /\ UNCHANGED <<varsData, record, display_3d, run_simulation, world_sync, tm_sync,
                   ego_vehicle, camera_sensor, inst_camera, npcs, frame, camera_out,
                   inst_out, inst_queue, exc, r_presses>>

\* bounding_boxes.py:212-216
GetInst ==
    /\ m_pc = "get_inst"
    /\ inst_queue # <<>>
    /\ LET got == queue_get(inst_queue)
       IN  /\ inst_queue' = got.rest
           /\ iter' = [iter EXCEPT !.inst_gets = @ + 1, !.inst_frame = got.item]
    /\ m_pc' = "process"
    /\ UNCHANGED <<varsData, record, display_3d, run_simulation, world_sync, tm_sync,
                   ego_vehicle, camera_sensor, inst_camera, npcs, frame, camera_out,
                   inst_out, image_queue, exc, r_presses>>

\* bounding_boxes.py:218-271: boxes, drawing, and the JSON file when record
\* is set
Process ==
    /\ m_pc = "process"
    /\ iter' = [iter EXCEPT !.json = record, !.done = TRUE]
    /\ m_pc' = "loop"
    /\ UNCHANGED <<varsData, record, display_3d, run_simulation, world_sync, tm_sync,
                   ego_vehicle, camera_sensor, inst_camera, npcs, frame, camera_out,
                   inst_out, image_queue, inst_queue, exc, r_presses>>

\* the statements inside the try block, bounding_boxes.py:182-271
InTry == m_pc \in {"loop", "tick", "get_image", "get_inst", "process"}

\* the statements between enabling synchronous mode and the try block
InSetup == m_pc \in {"spawn_ego", "spawn_sensors", "autopilot", "spawn_npcs", "listen"}

\* bounding_boxes.py:273-274: Ctrl+C inside the try block is caught
Interrupt ==
    /\ InTry
    /\ m_pc' = "finally"
    /\ UNCHANGED <<varsData, record, display_3d, run_simulation, world_sync, tm_sync,
                   ego_vehicle, camera_sensor, inst_camera, npcs, frame, camera_out,
                   inst_out, image_queue, inst_queue, exc, r_presses, iter>>

\* an exception raised while a frame is processed (bounding_boxes.py:218-271,
\* such as the OverflowError of bbox_3d_for_actor): the finally block runs,
\* then the exception leaves main
LoopException ==
    /\ m_pc = "process"
    /\ exc' = "error"
    /\ m_pc' = "finally"
    /\ UNCHANGED <<varsData, record, display_3d, run_simulation, world_sync, tm_sync,
                   ego_vehicle, camera_sensor, inst_camera, npcs, frame, camera_out,
                   inst_out, image_queue, inst_queue, r_presses, iter>>

\* Ctrl+C before the try block (bounding_boxes.py:120-180) ends the script
InterruptSetup ==
    /\ InSetup
    /\ exc' = "KeyboardInterrupt"
    /\ m_pc' = "crashed"
    /\ UNCHANGED <<varsData, record, display_3d, run_simulation, world_sync, tm_sync,
                   ego_vehicle, camera_sensor, inst_camera, npcs, frame, camera_out,
                   inst_out, image_queue, inst_queue, r_presses, iter>>

\* the finally block, bounding_boxes.py:275-299
Finally ==
    /\ m_pc = "finally"
    /\ ego_vehicle' = "destroyed"
    /\ camera_sensor' = "destroyed"
    /\ inst_camera' = "destroyed"
    /\ npcs' = [i \in 1..Len(npcs) |-> "destroyed"]
    /\ frame' = frame + 1
    /\ world_sync' = FALSE
    /\ tm_sync' = FALSE
    /\ m_pc' = "exited"
    /\ UNCHANGED <<varsData, record, display_3d, run_simulation, camera_out, inst_out,
                   image_queue, inst_queue, exc, r_presses, iter>>

IdleMain ==
    /\ m_pc = "off"
    /\ record = FALSE
    /\ display_3d = FALSE
    /\ run_simulation = TRUE
    /\ world_sync = FALSE
    /\ tm_sync = FALSE
    /\ ego_vehicle = "unset"
    /\ camera_sensor = "unset"
    /\ inst_camera = "unset"
    /\ npcs = <<>>
    /\ frame = 0
    /\ camera_out = <<>>
    /\ inst_out = <<>>
    /\ image_queue = <<>>
    /\ inst_queue = <<>>
    /\ exc = "none"
    /\ r_presses = 0
    /\ iter = NewIteration

\* ---- main of setup_world.py ----
Unbound == [bound |-> FALSE, ids |-> <<>>]

\* actor ids given by the simulator: vehicle n, walker n and controller n of
\* a batch (distinct ranges, the values themselves are read by no operation)
VehicleId(n) == n

WalkerId(n) == 10 + n

ControllerId(n) == 20 + n

\* the recommended speeds, walking and running (setup_world.py:190-195)
Speeds == {1, 2}

\* setup_world.py:135-155: the ids of the responses without error
RECURSIVE spawned_vehicles(_, _)
spawned_vehicles(ok, i) ==
    IF i > Len(ok) THEN <<>>
    ELSE (IF ok[i] THEN <<VehicleId(i)>> ELSE <<>>) \o spawned_vehicles(ok, i + 1)

\* setup_world.py:201-209: the walkers and the speeds of the responses
\* without error
RECURSIVE spawned_walkers(_, _, _)
spawned_walkers(ok, speeds, i) ==
    IF i > Len(ok) THEN [walkers |-> <<>>, speeds |-> <<>>]
    ELSE LET rest == spawned_walkers(ok, speeds, i + 1)
         IN  IF ok[i]
             THEN [walkers |-> <<[id |-> WalkerId(i), has_con |-> FALSE, con |-> 0]>>
                                   \o rest.walkers,
                   speeds  |-> <<speeds[i]>> \o rest.speeds]
             ELSE rest

\* setup_world.py:223-226: appends controller id and walker id per walker;
\* walkers_list[i]["con"] raises KeyError when the key is absent
RECURSIVE collect_ids(_, _, _)
collect_ids(wl, i, acc) ==
    IF i > Len(wl) THEN [ids |-> acc, raised |-> FALSE]
    ELSE IF ~wl[i].has_con THEN [ids |-> acc, raised |-> TRUE]
    ELSE collect_ids(wl, i + 1, acc \o <<wl[i].con, wl[i].id>>)

\* setup_world.py:93
Connect ==
    /\ s_pc = "connect"
    /\ s_pc' = "load_map"
    /\ UNCHANGED <<varsUtil, varsMain, settings_sync, synchronous_master, vehicles_list,
                   walkers_list, walker_speeds, all_ids, all_actors, max_speeds, drawn,
                   destroyed, restored, s_exc, fin_exc, s_ticks>>

\* setup_world.py:95-98, the map is one of the available maps
LoadMap ==
    /\ s_pc = "load_map"
    /\ s_pc' = "settings"
    /\ UNCHANGED <<varsUtil, varsMain, settings_sync, synchronous_master, vehicles_list,
                   walkers_list, walker_speeds, all_ids, all_actors, max_speeds, drawn,
                   destroyed, restored, s_exc, fin_exc, s_ticks>>

\* setup_world.py:100-115
ApplySettings ==
    /\ s_pc = "settings"
    /\ synchronous_master' = IF ~settings_sync THEN "True" ELSE "False"
    /\ settings_sync' = TRUE
    /\ s_pc' = "vehicles"
    /\ UNCHANGED <<varsUtil, varsMain, vehicles_list, walkers_list, walker_speeds, all_ids,
                   all_actors, max_speeds, drawn, destroyed, restored, s_exc, fin_exc, s_ticks>>

\* setup_world.py:117-159: a batch of n vehicles, each response with or
\* without error
SpawnVehicles ==
    /\ s_pc = "vehicles"
    /\ \E n \in 0..MaxVehicles : \E ok \in [1..n -> BOOLEAN] :
           vehicles_list' = vehicles_list \o spawned_vehicles(ok, 1)
    /\ s_pc' = "walkers"
    /\ UNCHANGED <<varsUtil, varsMain, settings_sync, synchronous_master, walkers_list,
                   walker_speeds, all_ids, all_actors, max_speeds, drawn, destroyed,
                   restored, s_exc, fin_exc, s_ticks>>

\* setup_world.py:163-209: a batch of n walkers, a speed drawn for each, each
\* response with or without error
SpawnWalkers ==
    /\ s_pc = "walkers"
    /\ \E n \in 0..MaxWalkers : \E speeds \in [1..n -> Speeds] : \E ok \in [1..n -> BOOLEAN] :
           LET r == spawned_walkers(ok, speeds, 1)
           IN  /\ walkers_list' = walkers_list \o r.walkers
               /\ walker_speeds' = r.speeds
               /\ drawn' = [i \in 1..n |-> [id |-> WalkerId(i), speed |-> speeds[i]]]
    /\ s_pc' = "controllers"
    /\ UNCHANGED <<varsUtil, varsMain, settings_sync, synchronous_master, vehicles_list,
                   all_ids, all_actors, max_speeds, destroyed, restored, s_exc, fin_exc,
                   s_ticks>>

\* setup_world.py:211-221: one controller per walker of walkers_list, each
\* response with or without error
SpawnControllers ==
    /\ s_pc = "controllers"
    /\ \E ok \in [1..Len(walkers_list) -> BOOLEAN] :
           walkers_list' = [i \in 1..Len(walkers_list) |->
                               IF ok[i]
                               THEN [walkers_list[i] EXCEPT !.has_con = TRUE,
                                                            !.con = ControllerId(i)]
                               ELSE walkers_list[i]]
    /\ s_pc' = "collect"
    /\ UNCHANGED <<varsUtil, varsMain, settings_sync, synchronous_master, vehicles_list,
                   walker_speeds, all_ids, all_actors, max_speeds, drawn, destroyed,
                   restored, s_exc, fin_exc, s_ticks>>

\* setup_world.py:223-226
CollectIds ==
    /\ s_pc = "collect"
    /\ LET r == collect_ids(walkers_list, 1, all_ids)
       IN  /\ all_ids' = r.ids
           /\ IF r.raised
              THEN s_exc' = "KeyError" /\ s_pc' = "finally"
              ELSE s_exc' = s_exc /\ s_pc' = "pre_tick"
    /\ UNCHANGED <<varsUtil, varsMain, settings_sync, synchronous_master, vehicles_list,
                   walkers_list, walker_speeds, all_actors, max_speeds, drawn, destroyed,
                   restored, fin_exc, s_ticks>>

\* setup_world.py:228-231
PreTick ==
    /\ s_pc = "pre_tick"
    /\ s_pc' = "start"
    /\ UNCHANGED <<varsUtil, varsMain, settings_sync, synchronous_master, vehicles_list,
                   walkers_list, walker_speeds, all_ids, all_actors, max_speeds, drawn,
                   destroyed, restored, s_exc, fin_exc, s_ticks>>

\* setup_world.py:233-243: world.get_actors(all_ids) gives the actors in the
\* order of all_ids; every second one is started with walker_speeds[int(i/2)]
StartControllers ==
    /\ s_pc = "start"
    /\ all_actors' = [bound |-> TRUE, ids |-> all_ids]
    /\ max_speeds' = [k \in 1..(Len(all_ids) \div 2) |->
                         [con |-> all_ids[2 * k - 1], speed |-> walker_speeds[k]]]
    /\ s_pc' = "ticking"
    /\ UNCHANGED <<varsUtil, varsMain, settings_sync, synchronous_master, vehicles_list,
                   walkers_list, walker_speeds, all_ids, drawn, destroyed, restored, s_exc,
                   fin_exc, s_ticks>>

\* setup_world.py:245-249
TickLoop ==
    /\ s_pc = "ticking"
    /\ s_ticks < MaxTicks
    /\ s_ticks' = s_ticks + 1
    /\ UNCHANGED <<varsUtil, varsMain, s_pc, settings_sync, synchronous_master, vehicles_list,
                   walkers_list, walker_speeds, all_ids, all_actors, max_speeds, drawn,
                   destroyed, restored, s_exc, fin_exc>>

\* the statement at s_pc raises: connection failure (line 93), unknown map
\* (line 97), a failing batch call (lines 151, 201, 216), a failing tick
\* (lines 228-231), Ctrl+C in the tick loop (lines 245-249)
RaisedBy ==
    [connect |-> "RuntimeError", load_map |-> "ValueError", vehicles |-> "RuntimeError",
     walkers |-> "RuntimeError", controllers |-> "RuntimeError", pre_tick |-> "RuntimeError",
     ticking |-> "KeyboardInterrupt"]

Raise ==
    /\ s_pc \in DOMAIN RaisedBy
    /\ s_exc' = RaisedBy[s_pc]
    /\ s_pc' = "finally"
    /\ UNCHANGED <<varsUtil, varsMain, settings_sync, synchronous_master, vehicles_list,
                   walkers_list, walker_speeds, all_ids, all_actors, max_speeds, drawn,
                   destroyed, restored, fin_exc, s_ticks>>

Range(f) == {f[i] : i \in DOMAIN f}

\* the finally block, setup_world.py:251-267: reading synchronous_master
\* (line 252) or all_actors (line 262) before its assignment raises
\* UnboundLocalError and ends the block
FinallySetup ==
    /\ s_pc = "finally"
    /\ IF synchronous_master = "unbound"
       THEN /\ fin_exc' = "UnboundLocalError"
            /\ UNCHANGED <<settings_sync, restored, destroyed>>
       ELSE /\ settings_sync' = IF synchronous_master = "True" THEN FALSE ELSE settings_sync
            /\ restored' = (synchronous_master = "True")
            /\ IF all_ids # <<>> /\ ~all_actors.bound
               THEN /\ fin_exc' = "UnboundLocalError"
                    /\ destroyed' = destroyed \cup Range(vehicles_list)
               ELSE /\ fin_exc' = fin_exc
                    /\ destroyed' = destroyed \cup Range(vehicles_list) \cup Range(all_ids)
    /\ s_pc' = "exited"
    /\ UNCHANGED <<varsUtil, varsMain, synchronous_master, vehicles_list, walkers_list,
                   walker_speeds, all_ids, all_actors, max_speeds, drawn, s_exc, s_ticks>>

IdleSetup ==
    /\ s_pc = "off"
    /\ settings_sync = FALSE
    /\ synchronous_master = "unbound"
    /\ vehicles_list = <<>>
    /\ walkers_list = <<>>
    /\ walker_speeds = <<>>
    /\ all_ids = <<>>
    /\ all_actors = Unbound
    /\ max_speeds = <<>>
    /\ drawn = <<>>
    /\ destroyed = {}
    /\ restored = FALSE
    /\ s_exc = "none"
    /\ fin_exc = "none"
    /\ s_ticks = 0

\* the two scripts not run
IdleProc == IdleMain /\ IdleSetup

\* the added variables at rest
IdleExt == IdleK /\ IdleKin /\ IdleProc

\* ---- inputs ----
CameraLocs == {Vec(1, 0, 0)}

CameraYaws == {0, 90}

Blueprints == {[image_size_x |-> 8, image_size_y |-> 4, fov |-> 90]}

ActorLocs == {Vec(x, y, z) : x \in -MaxCoord..MaxCoord, y \in -MaxCoord..MaxCoord,
                             z \in -MaxHeight..MaxHeight}

Extents == {Vec(1, 1, 1), Vec(2, 1, 1)}

BoxOffsets == {Vec(0, 0, 0), Vec(0, 0, 1)}

ActorYaws == {0, 90}

Egos == {[loc |-> Vec(0, 0, 0), yaw |-> 0, bb_loc |-> Vec(0, 0, 1)],
         [loc |-> Vec(1, 2, 0), yaw |-> 90, bb_loc |-> Vec(0, 0, 0)]}

Init3D ==
    /\ camera \in [loc : CameraLocs, yaw : CameraYaws]
    /\ camera_bp \in Blueprints
    /\ actor \in [id : {42}, loc : ActorLocs, yaw : ActorYaws, extent : Extents,
                  bb_loc : BoxOffsets, semantic_tags : {<<14>>}]
    /\ ego \in Egos
    /\ pc3d = "idle"
    /\ verts = <<>>
    /\ edge_i = 0
    /\ projection = <<>>
    /\ result3d = NoResult
    /\ hist = <<>>
    /\ Idle2D
    /\ IdleExt

Next3D ==
    \/ Bbox3dEnter
    \/ Bbox3dEdgeSkip
    \/ Bbox3dEdgeAppend
    \/ Bbox3dEdgeRaise
    \/ Bbox3dReturn

vars == <<vars3d, vars2d, varsExt>>

Spec3D == Init3D /\ [][Next3D]_vars

\* the 3D side at rest, for the specifications that do not run it
Idle3D ==
    /\ camera = [loc |-> Vec(0, 0, 0), yaw |-> 0]
    /\ camera_bp \in Blueprints
    /\ ego \in {[loc |-> Vec(0, 0, 0), yaw |-> 0, bb_loc |-> Vec(0, 0, 0)]}
    /\ pc3d = "off"
    /\ verts = <<>>
    /\ edge_i = 0
    /\ projection = <<>>
    /\ result3d = NoResult
    /\ hist = <<>>

\* the pixels of the frames of Spec2D: background (id 0, road), a motorcycle
\* pixel of actor 42 and a rider pixel of actor 298 = 42 + (1 << 8)
Palette == {<<0, 0, 1, 255>>, <<0, 42, 18, 255>>, <<1, 42, 13, 255>>}

\* the targets of Spec2D: a motorcycle with its rider, ids 42 and 298
Targets2D == [id : {42, 298}, loc : {Vec(0, 0, 0)}, yaw : {0}, extent : {Vec(1, 1, 1)},
              bb_loc : {Vec(0, 0, 0)}, semantic_tags : {<<13, 18>>}]

Init2D ==
    /\ Idle3D
    /\ IdleExt
    /\ actor \in Targets2D
    /\ inst_seg \in [0..(GridH - 1) -> [0..(GridW - 1) -> Palette]]
    /\ semantic_labels = <<>>
    /\ actor_ids = <<>>
    /\ pc2d = "idle"
    /\ result2d = NoResult

Next2D ==
    \/ Decode
    \/ Bbox2d

Spec2D == Init2D /\ [][Next2D]_vars

Bytes == 0..255

\* one-pixel frames with every value of the B and G channels
InitDecode ==
    /\ Idle3D
    /\ IdleExt
    /\ actor \in {a \in Targets2D : a.id = 42}
    /\ inst_seg \in {[y \in {0} |-> [x \in {0} |-> <<b, g, 14, 255>>]] : b \in Bytes, g \in Bytes}
    /\ semantic_labels = <<>>
    /\ actor_ids = <<>>
    /\ pc2d = "idle"
    /\ result2d = NoResult

NextDecode == Decode

SpecDecode == InitDecode /\ [][NextDecode]_vars

\* ---- build_projection_matrix: widths and heights 2a, a in -1..MaxHalfSize ----
KArgs == [w : {2 * a : a \in -1..MaxHalfSize}, h : {2 * a : a \in -1..MaxHalfSize}, fov : {90}]

InitK ==
    /\ Idle3D
    /\ Idle2D
    /\ IdleKin
    /\ IdleProc
    /\ actor \in {a \in Targets2D : a.id = 42}
    /\ k_args \in KArgs
    /\ k_normal = NoResult
    /\ k_mirrored = NoResult

NextK ==
    \/ BuildNormal
    \/ BuildMirrored

SpecK == InitK /\ [][NextK]_vars

\* ---- bbox_3d_for_actor followed by calculate_relative_velocity ----
\* the target as fast as the ego, or the ego at rest
VelocityPairs == {[actor |-> Vec(3, 1, 0), ego |-> Vec(3, 1, 0)],
                  [actor |-> Vec(3, 1, 0), ego |-> Vec(0, 0, 0)]}

InitKin ==
    /\ camera \in [loc : CameraLocs, yaw : {0}]
    /\ camera_bp \in Blueprints
    /\ actor \in [id : {42}, loc : ActorLocs, yaw : ActorYaws, extent : {Vec(1, 1, 1)},
                  bb_loc : BoxOffsets, semantic_tags : {<<14>>}]
    /\ ego \in Egos
    /\ pc3d = "idle"
    /\ verts = <<>>
    /\ edge_i = 0
    /\ projection = <<>>
    /\ result3d = NoResult
    /\ hist = <<>>
    /\ Idle2D
    /\ IdleK
    /\ IdleProc
    /\ velocities \in VelocityPairs
    /\ rel_vel = NoResult

NextKin ==
    \/ Next3D
    \/ CalcRelVel

SpecKin == InitKin /\ [][NextKin]_vars

\* ---- main of bounding_boxes.py, from the statement that enables
\* synchronous mode ----
InitMain ==
    /\ Idle3D
    /\ Idle2D
    /\ IdleK
    /\ IdleKin
    /\ IdleSetup
    /\ actor \in {a \in Targets2D : a.id = 42}
    /\ m_pc = "sync"
    /\ record = FALSE
    /\ display_3d = FALSE
    /\ run_simulation = TRUE
    /\ world_sync = FALSE
    /\ tm_sync = FALSE
    /\ ego_vehicle = "unset"
    /\ camera_sensor = "unset"
    /\ inst_camera = "unset"
    /\ npcs = <<>>
    /\ frame = 0
    /\ camera_out = <<>>
    /\ inst_out = <<>>
    /\ image_queue = <<>>
    /\ inst_queue = <<>>
    /\ exc = "none"
    /\ r_presses = 0
    /\ iter = NewIteration

NextMain ==
    \/ EnableSync
    \/ SpawnEgo
    \/ SpawnSensors
    \/ SetAutopilot
    \/ SpawnNpcs
    \/ Listen
    \/ HandleEvents
    \/ ExitLoop
    \/ Tick
    \/ CameraCallback
    \/ InstCallback
    \/ GetImage
    \/ GetInst
    \/ Process
    \/ Interrupt
    \/ LoopException
    \/ InterruptSetup
    \/ Finally

SpecMain == InitMain /\ [][NextMain]_vars

\* ---- main of setup_world.py, from the try block; the world is in
\* asynchronous or in synchronous mode when the script starts ----
InitSetup ==
    /\ Idle3D
    /\ Idle2D
    /\ IdleK
    /\ IdleKin
    /\ IdleMain
    /\ actor \in {a \in Targets2D : a.id = 42}
    /\ s_pc = "connect"
    /\ settings_sync \in BOOLEAN
    /\ synchronous_master = "unbound"
    /\ vehicles_list = <<>>
    /\ walkers_list = <<>>
    /\ walker_speeds = <<>>
    /\ all_ids = <<>>
    /\ all_actors = Unbound
    /\ max_speeds = <<>>
    /\ drawn = <<>>
    /\ destroyed = {}
    /\ restored = FALSE
    /\ s_exc = "none"
    /\ fin_exc = "none"
    /\ s_ticks = 0

NextSetup ==
    \/ Connect
    \/ LoadMap
    \/ ApplySettings
    \/ SpawnVehicles
    \/ SpawnWalkers
    \/ SpawnControllers
    \/ CollectIds
    \/ PreTick
    \/ StartControllers
    \/ TickLoop
    \/ Raise
    \/ FinallySetup

SpecSetup == InitSetup /\ [][NextSetup]_vars

\* ------------------------------------------------------------------------
\* Geometry of the specification, stated without the code's operators
\* ------------------------------------------------------------------------
\* vertex i of the target, relative to the camera
Rel(i) == VecSub(verts[i], camera.loc)

\* forward dot product of vertex i (its depth along the optical axis)
Depth(i) == Cos(camera.yaw) * Rel(i).x + Sin(camera.yaw) * Rel(i).y

\* offset of vertex i to the right of the optical axis
Side(i) == Cos(camera.yaw) * Rel(i).y - Sin(camera.yaw) * Rel(i).x

Behind(i) == Depth(i) <= 0

ImageW == camera_bp.image_size_x

ImageH == camera_bp.image_size_y

\* focal length at a field of view of 90 degrees: w / (2 * tan(45 deg))
Focal90 == ImageW \div 2

\* pinhole projection of vertex i, focal term f: u = w/2 + f * side / depth,
\* v = h/2 - f * height / depth, as numerators over the common depth
PinholeU(i, f) == (ImageW \div 2) * Depth(i) + f * Side(i)

PinholeV(i, f) == (ImageH \div 2) * Depth(i) - f * Rel(i).z

\* 0 <= u < w and 0 <= v < h for the normal projection of vertex i; the
\* inequalities are multiplied by Depth(i)^2, which is positive
InCanvas(i) ==
    /\ Depth(i) # 0
    /\ PinholeU(i, Focal90) * Depth(i) >= 0
    /\ PinholeU(i, Focal90) * Depth(i) < ImageW * Depth(i) * Depth(i)
    /\ PinholeV(i, Focal90) * Depth(i) >= 0
    /\ PinholeV(i, Focal90) * Depth(i) < ImageH * Depth(i) * Depth(i)

\* integer part (towards zero) of n / d, d # 0
IntPart(n, d) ==
    LET an == IF n < 0 THEN -n ELSE n
        ad == IF d < 0 THEN -d ELSE d
    IN  IF (n < 0) = (d < 0) THEN an \div ad ELSE -(an \div ad)

\* the two integer pixel coordinates of vertex i under focal term f
Pixel(i, f) == <<IntPart(PinholeU(i, f), Depth(i)), IntPart(PinholeV(i, f), Depth(i))>>

\* hist only grows by Append and the inputs never change, so every
\* iteration is the latest one in the state that follows it: a property of
\* the latest iteration in every reachable state is a property of every
\* iteration
Iterations == IF hist = <<>> THEN {} ELSE {Len(hist)}

AllIterations == 1..Len(hist)

Appended(k) == hist[k].outcome = "appended"

\* endpoint j (1 or 2) of the edge handled by iteration k
EndPoint(k, j) == EDGES[k][j]

UsedK(k, j) == IF j = 1 THEN hist[k].k1 ELSE hist[k].k2

SegPoint(k, j) == IF j = 1 THEN <<hist[k].seg[1], hist[k].seg[2]>>
                  ELSE <<hist[k].seg[3], hist[k].seg[4]>>

Terminated3D == pc3d \in {"done", "raised"}

\* ------------------------------------------------------------------------
\* Claims about bbox_3d_for_actor
\* ------------------------------------------------------------------------
AllBehind == \A i \in 0..7 : Behind(i)

HasVertexOnCameraPlane == \E i \in 0..7 : Depth(i) = 0

\* C1: when all 8 vertices of the target are behind the camera (forward dot
\* product <= 0), the returned projection is empty while center, dimensions
\* and rotation_yaw are still returned.
C1_BehindCameraEmptyProjection ==
    (pc3d = "done" /\ AllBehind) =>
        /\ result3d.projection = <<>>
        /\ result3d.center = inverse_transform(
               [loc |-> VecAdd(ego.loc, ego.bb_loc), yaw |-> ego.yaw],
               VecAdd(actor.loc, actor.bb_loc))
        /\ result3d.dimensions = [length |-> 2 * actor.extent.x,
                                  width |-> 2 * actor.extent.y,
                                  height |-> 2 * actor.extent.z]
        /\ result3d.rotation_yaw = [n |-> actor.yaw - ego.yaw, d |-> 180]

\* C2: every edge of EDGES contributes a segment if and only if at least one
\* of its endpoints, projected with the normal intrinsics, is in the canvas.
C2_SegmentIffEndpointInCanvas ==
    Terminated3D =>
        \A k \in 1..Len(EDGES) :
            (k <= Len(hist) /\ Appended(k)) <=>
                (InCanvas(EDGES[k][1]) \/ InCanvas(EDGES[k][2]))

C4_PerEndpointChoice ==
    \A k \in Iterations : \A j \in {1, 2} :
        Appended(k) =>
            /\ UsedK(k, j) = "K_b" <=> Behind(EndPoint(k, j))
            /\ SegPoint(k, j) = Pixel(EndPoint(k, j),
                                      IF Behind(EndPoint(k, j)) THEN -Focal90 ELSE Focal90)

\* reached: emitted segments of all three kinds (both endpoints behind, one
\* behind, none behind) occur in one call
C4_Witness ==
    /\ \E k \in AllIterations :
           Appended(k) /\ Behind(EndPoint(k, 1)) /\ Behind(EndPoint(k, 2))
                       /\ hist[k].k1 = "K_b" /\ hist[k].k2 = "K_b"
    /\ \E k \in AllIterations :
           Appended(k) /\ ~Behind(EndPoint(k, 1)) /\ Behind(EndPoint(k, 2))
                       /\ hist[k].k1 = "K" /\ hist[k].k2 = "K_b"

\* C5: a vertex of depth exactly 0 is projected by a defined policy, without
\* dividing by 0, so that bbox_3d_for_actor returns normally for an actor
\* having a vertex on the camera plane.
C5_ZeroDepthReturnsNormally ==
    pc3d = "raised" => ~HasVertexOnCameraPlane

\* C9: point_in_canvas is true exactly for 0 <= pos[0] < img_w and
\* 0 <= pos[1] < img_h, the values img_w and img_h excluded, and
\* bbox_3d_for_actor passes height and width in that order.
C9_PointInCanvasHalfOpen ==
    \A k \in Iterations :
        /\ hist[k].p1_in_canvas <=> InCanvas(EndPoint(k, 1))
        /\ hist[k].p2_in_canvas <=> InCanvas(EndPoint(k, 2))

\* reached: an endpoint projected exactly on the right border (u = img_w,
\* with 0 <= v < img_h) and one exactly on the bottom border (v = img_h,
\* with 0 <= u < img_w), both answered False, and one answered True
C9_Witness ==
    /\ \E k \in AllIterations :
           LET i == EndPoint(k, 1)
           IN  /\ Depth(i) > 0
               /\ PinholeU(i, Focal90) = ImageW * Depth(i)
               /\ PinholeV(i, Focal90) >= 0 /\ PinholeV(i, Focal90) < ImageH * Depth(i)
               /\ ~hist[k].p1_in_canvas
    /\ \E k \in AllIterations :
           LET i == EndPoint(k, 1)
           IN  /\ Depth(i) > 0
               /\ PinholeV(i, Focal90) = ImageH * Depth(i)
               /\ PinholeU(i, Focal90) >= 0 /\ PinholeU(i, Focal90) < ImageW * Depth(i)
               /\ ~hist[k].p1_in_canvas
    /\ \E k \in AllIterations : hist[k].p1_in_canvas

\* the segments of the iterations 1..n that appended one, in order
RECURSIVE AppendedSegs(_)
AppendedSegs(n) ==
    IF n = 0 THEN <<>>
    ELSE IF Appended(n) THEN Append(AppendedSegs(n - 1), hist[n].seg)
    ELSE AppendedSegs(n - 1)

\* C10: the number of segments in projection is between 0 and 12; each entry
\* of EDGES contributes at most one segment and the segments are in EDGES
\* order.
C10_AtMostTwelveInOrder ==
    /\ Len(projection) >= 0 /\ Len(projection) <= 12
    /\ Len(hist) <= Len(EDGES)
    /\ projection = AppendedSegs(Len(hist))
    /\ pc3d = "done" => result3d.projection = projection

\* reached: a call that returned all 12 segments, and they are not all equal
C10_Witness ==
    /\ pc3d = "done"
    /\ Len(result3d.projection) = 12
    /\ \E a, b \in 1..12 : result3d.projection[a] # result3d.projection[b]

\* ------------------------------------------------------------------------
\* Claims about decode_instance_segmentation and bbox_2d_for_actor
\* ------------------------------------------------------------------------
Rows == DOMAIN actor_ids

Cols == 0..(GridW - 1)

\* the cells <<row, column>> of the actor_ids grid that hold the target's id
Matching == {cell \in Rows \X Cols : actor_ids[cell[1]][cell[2]] = actor.id}

\* C6: bbox_2d_for_actor returns None if and only if no cell of actor_ids
\* equals the actor's id; otherwise bbox_2d is (xmin, ymin, xmax, ymax), the
\* smallest and largest column and row of the matching cells, inclusive.
C6_TightBoxOrNone ==
    pc2d = "done" =>
        /\ result2d.kind = "None" <=> Matching = {}
        /\ result2d.kind # "None" =>
              LET box == result2d.bbox_2d
              IN  /\ \A cell \in Matching :
                         /\ box[1] <= cell[2] /\ cell[2] <= box[3]
                         /\ box[2] <= cell[1] /\ cell[1] <= box[4]
                  /\ \E cell \in Matching : cell[2] = box[1]
                  /\ \E cell \in Matching : cell[1] = box[2]
                  /\ \E cell \in Matching : cell[2] = box[3]
                  /\ \E cell \in Matching : cell[1] = box[4]

\* reached: the target fills exactly the block of rows 0-1, columns 1-2 and
\* the box is (1, 0, 2, 1)
C6_Witness ==
    /\ pc2d = "done"
    /\ Matching = {<<0, 1>>, <<0, 2>>, <<1, 1>>, <<1, 2>>}
    /\ result2d.kind = "bbox_2d"
    /\ result2d.bbox_2d = <<1, 0, 2, 1>>

\* reached: a frame without the target, for which None is returned
C6_WitnessNone == pc2d = "done" /\ Matching = {} /\ result2d.kind = "None"

\* C7 (as stated): the semantic_label of a returned box is the value of the
\* semantic_labels grid at one of the pixels whose actor id is the target's.
C7_LabelReadFromGrid ==
    (pc2d = "done" /\ result2d.kind = "bbox_2d") =>
        \E cell \in Matching : result2d.semantic_label = semantic_labels[cell[1]][cell[2]]

\* C7 (amended): the semantic_label of a returned box is the first semantic
\* tag of the actor, actor.semantic_tags[0]; the semantic_labels grid is not
\* read.
C7_LabelIsFirstActorTag ==
    (pc2d = "done" /\ result2d.kind = "bbox_2d") =>
        result2d.semantic_label = Head(actor.semantic_tags)

\* reached: a box is returned whose label is the actor's first tag while
\* every matching pixel of the grid carries another label
C7_Witness ==
    /\ pc2d = "done"
    /\ result2d.kind = "bbox_2d"
    /\ result2d.semantic_label = 13
    /\ \A cell \in Matching : semantic_labels[cell[1]][cell[2]] = 18

\* C8: for every pixel, semantic_labels is the R channel and actor_ids is
\* G + (B << 8) without 16-bit wrap-around: the id is exactly g + 256 * b and
\* (b, g) is recovered from it.
C8_DecodeExact ==
    pc2d = "decoded" =>
        \A y \in DOMAIN inst_seg : \A x \in DOMAIN inst_seg[y] :
            LET b == inst_seg[y][x][1]
                g == inst_seg[y][x][2]
                r == inst_seg[y][x][3]
                id == actor_ids[y][x]
            IN  /\ semantic_labels[y][x] = r
                /\ id = g + 256 * b
                /\ id \div 256 = b
                /\ id % 256 = g

\* reached: the pixel with B = G = 255 decodes to the largest id, 65535
C8_Witness ==
    /\ pc2d = "decoded"
    /\ inst_seg[0][0][1] = 255 /\ inst_seg[0][0][2] = 255
    /\ actor_ids[0][0] = 65535
    /\ semantic_labels[0][0] = 14

\* ------------------------------------------------------------------------
\* Claims about the EDGES table
\* ------------------------------------------------------------------------
\* the entries of EDGES that contain vertex index v
EntriesWith(v) == {k \in 1..Len(EDGES) : EDGES[k][1] = v \/ EDGES[k][2] = v}

\* the coordinates (x, y, z bits) in which the corners a and b differ
DifferingAxes(a, b) == {m \in {1, 2, 4} : ((a \div m) % 2) # ((b \div m) % 2)}

\* C11: EDGES is a table of exactly 12 entries, each a pair of two distinct
\* vertex indices in 0..7, no pair repeated in either order, every vertex
\* index in exactly 3 entries (each entry joins two corners of the box that
\* differ in one coordinate); bbox_3d_for_actor walks the 12 entries and
\* leaves the table as it is.
C11_EdgesIsBoxWireframe ==
    /\ Len(EDGES) = 12
    /\ \A k \in 1..Len(EDGES) :
           /\ Len(EDGES[k]) = 2
           /\ EDGES[k][1] \in 0..7 /\ EDGES[k][2] \in 0..7
           /\ EDGES[k][1] # EDGES[k][2]
           /\ Cardinality(DifferingAxes(EDGES[k][1], EDGES[k][2])) = 1
    /\ \A k, l \in 1..Len(EDGES) :
           k # l => {EDGES[k][1], EDGES[k][2]} # {EDGES[l][1], EDGES[l][2]}
    /\ \A v \in 0..7 : Cardinality(EntriesWith(v)) = 3
    /\ pc3d = "done" => Len(hist) = 12

\* reached: a call that went through all 12 entries and returned
C11_Witness == pc3d = "done" /\ Len(hist) = Len(EDGES) /\ edge_i = 13

\* ------------------------------------------------------------------------
\* Claims about calculate_relative_velocity and the ego-relative center
\* ------------------------------------------------------------------------
\* ego and target with the same transform, velocity and bounding volume
\* (the extent of the ego's volume is read by no operation)
IdenticalEgoAndTarget ==
    /\ actor.loc = ego.loc
    /\ actor.yaw = ego.yaw
    /\ actor.bb_loc = ego.bb_loc
    /\ velocities.actor = velocities.ego

\* C13: ego and target with identical transform, velocity and bounding
\* volume: calculate_relative_velocity returns the zero vector and the
\* center returned by bbox_3d_for_actor is the zero vector.
C13_IdenticalGivesZero ==
    (rel_vel # NoResult /\ IdenticalEgoAndTarget) =>
        /\ rel_vel.x = 0 /\ rel_vel.y = 0 /\ rel_vel.z = 0
        /\ result3d.center = [x |-> 0, y |-> 0, z |-> 0]

\* ------------------------------------------------------------------------
\* Claims about build_projection_matrix
\* ------------------------------------------------------------------------
ValidKArgs == k_args.w > 0 /\ k_args.h > 0 /\ k_args.fov > 0 /\ k_args.fov < 180

\* C14: for all valid (w, h, fov), K[0][2] = w/2, K[1][2] = h/2,
\* K[0][0] = K[1][1], K[2][2] = 1 and every other entry is 0; the mirrored
\* matrix differs from the normal one only in K[0][0] and K[1][1], which are
\* the negation of the normal focal term.
C14_MatrixShape ==
    /\ (k_normal # NoResult /\ ValidKArgs) =>
           LET K == k_normal.K
           IN  /\ 2 * K[1][3] = k_args.w
               /\ 2 * K[2][3] = k_args.h
               /\ K[1][1] = K[2][2]
               /\ K[3][3] = 1
               /\ K[1][2] = 0 /\ K[2][1] = 0 /\ K[3][1] = 0 /\ K[3][2] = 0
    /\ (k_mirrored # NoResult /\ ValidKArgs) =>
           LET K == k_normal.K
               K_b == k_mirrored.K
           IN  /\ K_b[1][1] = -K[1][1]
               /\ K_b[2][2] = -K[2][2]
               /\ \A r, c \in 1..3 : (r # c \/ r = 3) => K_b[r][c] = K[r][c]

\* reached: both matrices built for a valid image wider than high, with a
\* focal term that is not 0
C14_Witness ==
    /\ k_mirrored # NoResult
    /\ ValidKArgs
    /\ k_args.w > k_args.h
    /\ k_normal.K[1][1] > 0
    /\ k_mirrored.K[1][1] < 0

\* C15: build_projection_matrix called with a non-positive width, height or
\* fov fails with an error and returns no matrix.
C15_NonPositiveFails ==
    (k_normal # NoResult /\ (k_args.w <= 0 \/ k_args.h <= 0 \/ k_args.fov <= 0)) =>
        k_normal.kind # "matrix"

\* ------------------------------------------------------------------------
\* Claims about main of bounding_boxes.py
\* ------------------------------------------------------------------------
\* C12: every iteration of the main loop issues exactly one world.tick() and
\* then removes exactly one frame from image_queue and exactly one from
\* inst_queue before the next tick; with one frame per sensor per tick,
\* delivered in FIFO order, both queues are empty at every tick of the loop
\* and the two frames processed in an iteration are those of its tick.
C12_OneTickTwoFramesPerIteration ==
    /\ m_pc = "tick" =>
           /\ image_queue = <<>> /\ inst_queue = <<>>
           /\ iter.ticks = 0 /\ iter.image_gets = 0 /\ iter.inst_gets = 0
    /\ m_pc = "get_image" => iter.ticks = 1 /\ iter.image_gets = 0 /\ iter.inst_gets = 0
    /\ m_pc = "get_inst" =>
           /\ iter.ticks = 1 /\ iter.image_gets = 1 /\ iter.inst_gets = 0
           /\ iter.image_frame = iter.tick_frame
    /\ (m_pc = "process" \/ iter.done) =>
           /\ iter.ticks = 1 /\ iter.image_gets = 1 /\ iter.inst_gets = 1
           /\ iter.image_frame = iter.tick_frame
           /\ iter.inst_frame = iter.tick_frame
    /\ (m_pc = "process" \/ (m_pc = "loop" /\ iter.done)) =>
           /\ iter.tick_frame = frame
           /\ image_queue = <<>> /\ inst_queue = <<>>

\* reached: the second iteration of the loop has processed its two frames
C12_Witness ==
    /\ m_pc = "loop"
    /\ iter.done
    /\ iter.tick_frame = 2
    /\ iter.image_frame = 2
    /\ iter.inst_frame = 2

\* C16: each R key-up toggles recording, so after an even number of R
\* key-ups recording is off and no image or JSON file is written for the
\* frames that follow.
C16_EvenPressesRecordingOff ==
    /\ (m_pc # "off" /\ r_presses % 2 = 0) => record = FALSE
    /\ (iter.done /\ iter.presses % 2 = 0) => (~iter.png /\ ~iter.json)

\* the cleanup of bounding_boxes.py:275-299 has run to its end
CleanupDone ==
    /\ camera_sensor = "destroyed"
    /\ inst_camera = "destroyed"
    /\ ego_vehicle = "destroyed"
    /\ \A i \in 1..Len(npcs) : npcs[i] = "destroyed"
    /\ world_sync = FALSE
    /\ tm_sync = FALSE

\* C17: on every path on which the script stops after it has enabled
\* synchronous mode (ESC, window close, Ctrl+C, a failed ego spawn, an
\* exception inside the loop) the cleanup has run to completion.
C17_StopImpliesCleanup ==
    m_pc \in {"exited", "crashed"} => CleanupDone

\* ------------------------------------------------------------------------
\* Claims about main of setup_world.py
\* ------------------------------------------------------------------------
\* C18: whatever step of the try block raises, the finally block completes
\* without raising: it restores asynchronous mode if and only if this script
\* switched the world to synchronous mode, and issues a destroy command for
\* every id in vehicles_list and every id in all_ids recorded so far.
C18_FinallyCompletes ==
    s_pc = "exited" =>
        /\ fin_exc = "none"
        /\ restored <=> (synchronous_master = "True")
        /\ Range(vehicles_list) \subseteq destroyed
        /\ Range(all_ids) \subseteq destroyed

\* the speed drawn for the walker with this id
DrawnSpeed(id) == (CHOOSE d \in Range(drawn) : d.id = id).speed

\* C19: for any pattern of failed walker and controller spawn responses,
\* all_ids holds for each successfully spawned walker k, in order, its
\* controller id at position 2k and its walker id at position 2k+1, and the
\* max speed applied to the controller at position 2k is the speed drawn for
\* that walker.
C19_AllIdsPairedWithSpeeds ==
    /\ (s_pc \in {"pre_tick", "start", "ticking"} \/ s_exc = "KeyError") =>
           /\ Len(all_ids) = 2 * Len(walkers_list)
           /\ \A k \in 1..Len(walkers_list) :
                  /\ walkers_list[k].has_con
                  /\ all_ids[2 * k - 1] = walkers_list[k].con
                  /\ all_ids[2 * k] = walkers_list[k].id
    /\ s_pc = "ticking" =>
           /\ Len(max_speeds) = Len(walkers_list)
           /\ \A k \in 1..Len(walkers_list) :
                  /\ max_speeds[k].con = all_ids[2 * k - 1]
                  /\ max_speeds[k].speed = DrawnSpeed(all_ids[2 * k])

====
